---- MODULE Spec2Model ----
(***************************************************************************)
(* Model of the perfecttraders MT5 bridge: the MT5Engine singleton         *)
(* (src/mt5_engine.py), the /price, /trade/open and /admin/adjust-balance  *)
(* routes (src/main.py) and the accounts and trades tables                 *)
(* (src/database.py).                                                      *)
(*                                                                         *)
(* Worker threads run requests concurrently.  Every remote call of the     *)
(* MetaTrader5 package (initialize, symbol_select, symbol_info_tick,       *)
(* order_send, shutdown) is one atomic step; the local code that follows   *)
(* it up to the next remote call belongs to the same step.  The terminal   *)
(* connection of the MetaTrader5 package is one process-wide session.      *)
(*                                                                         *)
(* Strings that the code normalises are sequences of characters; prices    *)
(* are integers (points).  The fields of a record are written in one       *)
(* order throughout the module, which is not always the order of the       *)
(* source.                                                                 *)
(***************************************************************************)
EXTENDS Integers, Sequences, FiniteSets, TLC

\* ------------------------------------------------------------------ bounds

\* Requests started over the whole run.
MaxRequests == 2

\* ------------------------------------------------------------------ values

\* Python's None where a record or a sequence may stand.
None == [none |-> TRUE]

\* MT5Engine._instance = None (line 43): no object; objects are numbered from 1.
NoObject == 0

\* MT5Engine._lock when no thread holds it; threads are numbered from 1.
Unlocked == 0

\* The worker threads of the process.
Threads == {1, 2}

\* mt5.TRADE_RETCODE_DONE and two of the other return codes of the venue.
TRADE_RETCODE_DONE == 10009
TRADE_RETCODE_REQUOTE == 10004
TRADE_RETCODE_DONE_PARTIAL == 10010

Retcodes == {TRADE_RETCODE_DONE, TRADE_RETCODE_REQUOTE, TRADE_RETCODE_DONE_PARTIAL}

ORDER_TYPE_BUY == 0
ORDER_TYPE_SELL == 1

\* ----------------------------------------------------------------- strings

Letters ==
  << <<"a", "A">>, <<"b", "B">>, <<"d", "D">>, <<"e", "E">>, <<"h", "H">>,
     <<"l", "L">>, <<"o", "O">>, <<"r", "R">>, <<"s", "S">>, <<"u", "U">>,
     <<"y", "Y">>, <<"z", "Z">> >>

UpperChar(c) ==
  IF \E i \in DOMAIN Letters : Letters[i][1] = c
  THEN Letters[CHOOSE i \in DOMAIN Letters : Letters[i][1] = c][2]
  ELSE c

LowerChar(c) ==
  IF \E i \in DOMAIN Letters : Letters[i][2] = c
  THEN Letters[CHOOSE i \in DOMAIN Letters : Letters[i][2] = c][1]
  ELSE c

\* str.upper()
Upper(s) == [i \in DOMAIN s |-> UpperChar(s[i])]

\* str.lower()
Lower(s) == [i \in DOMAIN s |-> LowerChar(s[i])]

IsSpace(c) == c = " "

\* str.strip(): drops the leading and the trailing whitespace
Strip(s) ==
  IF \A i \in DOMAIN s : IsSpace(s[i]) THEN <<>>
  ELSE LET lo == CHOOSE i \in DOMAIN s :
                   /\ ~IsSpace(s[i])
                   /\ \A j \in 1..(i - 1) : IsSpace(s[j])
           hi == CHOOSE i \in DOMAIN s :
                   /\ ~IsSpace(s[i])
                   /\ \A j \in (i + 1)..Len(s) : IsSpace(s[j])
       IN  SubSeq(s, lo, hi)

Digits == <<"0", "1", "2", "3", "4", "5", "6", "7", "8", "9">>

\* str(n) of a non-negative int: its decimal digits
RECURSIVE IntToStr(_)
IntToStr(n) ==
  IF n < 10 THEN <<Digits[n + 1]>>
  ELSE Append(IntToStr(n \div 10), Digits[(n % 10) + 1])

BUY == <<"b", "u", "y">>
SELL == <<"s", "e", "l", "l">>
EURUSD == <<"E", "U", "R", "U", "S", "D">>

\* ------------------------------------------------------------------ inputs

\* Symbols a request may carry.
RequestSymbols == { <<" ", "e", "u", "r", "u", "s", "d">> }

\* Sides a direct caller of send_market_order may pass.
CallerSides == { <<" ", "S", "E", "L", "L">>, <<"h", "o", "l", "d">> }

\* Symbols the venue lists.
VenueSymbols == { EURUSD }

\* Ticks the venue may quote.
Ticks == { [bid |-> 11000, ask |-> 11002, time |-> 1],
           [bid |-> 11001, ask |-> 11003, time |-> 2] }

\* Order ids the venue may assign, and the deal id it reports with them.
OrderIds == {555, 556}
PartialOrderIds == {555}
DealIds == {999}

\* Difference between the executed and the requested price.
Slippage == {0, 1}

\* Sides a payload of /trade/open may carry before validation.
PayloadTypes == { BUY, SELL, <<"h", "o", "l", "d">> }

\* Volumes (lots, in hundredths) a request may carry.
Volumes == {10}

\* The authenticated principals, and the account ids a payload may name:
\* account 1 belongs to user 1, account 2 to user 2, account 3 does not exist.
Principals == {1}
PayloadAccountIds == {1, 2, 3}

\* Environments: MT5_LOGIN, MT5_PASSWORD, MT5_SERVER and ADMIN_SECRET (an
\* unset variable reads as ""): a complete one, one with a blank password,
\* and one with a blank password and no admin secret.
Environments ==
  { [MT5_LOGIN |-> <<"7">>, MT5_PASSWORD |-> <<"p">>, MT5_SERVER |-> <<"s">>,
     ADMIN_SECRET |-> "k"],
    [MT5_LOGIN |-> <<"7">>, MT5_PASSWORD |-> <<" ">>, MT5_SERVER |-> <<"s">>,
     ADMIN_SECRET |-> "k"],
    [MT5_LOGIN |-> <<"7">>, MT5_PASSWORD |-> <<" ">>, MT5_SERVER |-> <<"s">>,
     ADMIN_SECRET |-> ""] }

\* Values of the header X-ADMIN-SECRET of a request; absent reads as "".
AdminHeaders == {"", "k"}

VARIABLES
  env,           \* os.environ: the MT5_* variables and ADMIN_SECRET
  mt5,           \* TRUE iff the MetaTrader5 package was imported
  session,       \* the package's terminal connection: "none" before the first
                 \* initialize, "up" after a successful one, "failed" when a
                 \* failed one left none, "shutdown" after mt5.shutdown()
  _instance,     \* MT5Engine._instance: NoObject or an index of objects
  _lock,         \* MT5Engine._lock: Unlocked or the thread that holds it
  objects,       \* the MT5Engine objects allocated so far
  accounts,      \* accounts table: id -> [id, user_id, balance]
  trades,        \* trades table, in insertion order
  origin,        \* history: for each trade, the acknowledgements its request got
  pc,            \* per thread: position in the request it runs
  req,           \* per thread: the request
  self,          \* per thread: the engine instance its construction got
  loc,           \* per thread: locals of the running engine operation
  calls,         \* per thread: remote calls of the running request, in order
  resp,          \* per thread: what the caller received
  nreq           \* requests started

vars == << env, mt5, session, _instance, _lock, objects, accounts, trades, origin,
           pc, req, self, loc, calls, resp, nreq >>

\* ----------------------------------------------------------------- records

NoLocals ==
  [symbol |-> None, order_type |-> None, tick |-> None, request |-> None,
   result |-> None, err |-> None]

\* An exception: its class, the fixed part of its message, and the return
\* code and venue comment its message carries (None when it carries none).
Exc(cls, msg, retcode, comment) ==
  [cls |-> cls, msg |-> msg, retcode |-> retcode, comment |-> comment]

MT5EngineError(msg) == Exc("MT5EngineError", msg, None, None)

\* One remote call of the log: the operation, its argument and its result.
Call(op, arg, res) == [op |-> op, arg |-> arg, res |-> res]

\* What the caller received: an HTTP status (0 for a direct caller of the
\* engine), the exception raised or reported, and the returned body.
Response(st, e, b) == [status |-> st, error |-> e, body |-> b]

Init ==
  /\ env \in Environments
  /\ mt5 \in BOOLEAN
  /\ session = "none"
  /\ _instance = NoObject
  /\ _lock = Unlocked
  /\ objects = <<>>
  /\ accounts = [a \in {1, 2} |-> [id |-> a, user_id |-> a, balance |-> 0]]
  /\ trades = <<>>
  /\ origin = <<>>
  /\ pc = [t \in Threads |-> "idle"]
  /\ req = [t \in Threads |-> None]
  /\ self = [t \in Threads |-> NoObject]
  /\ loc = [t \in Threads |-> NoLocals]
  /\ calls = [t \in Threads |-> <<>>]
  /\ resp = [t \in Threads |-> None]
  /\ nreq = 0

\* --------------------------------------------------------- request arrival

\* OpenTradeRequest: the field constraints of the payload model.
ValidOpenTradeRequest(p) ==
  /\ Len(p.symbol) >= 2 /\ Len(p.symbol) <= 20
  /\ p.volume > 0
  /\ p.type \in {BUY, SELL}

OpenTradePayloads ==
  { p \in [symbol : RequestSymbols, volume : Volumes, type : PayloadTypes,
           account_id : PayloadAccountIds] : ValidOpenTradeRequest(p) }

\* A worker is free when it is idle or has answered its previous request.
Free(t) == pc[t] \in {"idle", "done"}

\* A free worker takes request r and starts it at position at.
Start(t, r, at) ==
  /\ Free(t)
  /\ nreq < MaxRequests
  /\ nreq' = nreq + 1
  /\ req' = [req EXCEPT ![t] = r]
  /\ pc' = [pc EXCEPT ![t] = at]
  /\ self' = [self EXCEPT ![t] = NoObject]
  /\ loc' = [loc EXCEPT ![t] = NoLocals]
  /\ calls' = [calls EXCEPT ![t] = <<>>]
  /\ resp' = [resp EXCEPT ![t] = None]
  /\ UNCHANGED << env, mt5, session, _instance, _lock, objects, accounts,
                  trades, origin >>

\* GET /price/{symbol} arrives with an authenticated user.
BeginGetPrice(t) ==
  \E u \in Principals, s \in RequestSymbols :
    Start(t, [symbol |-> s, kind |-> "get_price", user |-> u], "new47")

\* POST /trade/open arrives with an authenticated user and a valid payload.
BeginOpenTrade(t) ==
  \E u \in Principals, p \in OpenTradePayloads :
    Start(t, [symbol |-> p.symbol, volume |-> p.volume, type |-> p.type,
              account_id |-> p.account_id, kind |-> "open_trade", user |-> u],
          "account")

\* Code of the process calls MT5Engine().send_market_order directly.
BeginSendMarketOrder(t) ==
  \E s \in RequestSymbols, v \in Volumes, ot \in CallerSides :
    Start(t, [symbol |-> s, volume |-> v, type |-> ot,
              kind |-> "send_market_order"], "new47")

\* Payloads of /admin/adjust-balance: two balances for account 1, one for
\* account 3, which does not exist.
AdjustBalancePayloads ==
  { [balance |-> 5, account_id |-> 1], [balance |-> 7, account_id |-> 1],
    [balance |-> 5, account_id |-> 3] }

\* POST /admin/adjust-balance arrives; the route asks for no user.
BeginAdjustBalance(t) ==
  \E p \in AdjustBalancePayloads, h \in AdminHeaders :
    Start(t, [balance |-> p.balance, account_id |-> p.account_id,
              kind |-> "adjust_balance", x_admin_secret |-> h], "adjust")

\* ------------------------------------------------------- leaving a request

\* What the caller of the running request receives for an exception: the
\* routes turn MT5EngineError into 502 and let any other exception through
\* (the framework's 500); a direct caller gets the exception itself.
Raised(r, e) ==
  IF r.kind = "send_market_order" THEN Response(0, e, None)
  ELSE IF e.cls = "MT5EngineError" THEN Response(502, e, None)
  ELSE IF e.cls = "HTTPException" THEN Response(e.retcode, e, None)
  ELSE Response(500, e, None)

\* The request of t ends with response rs.
Finish(t, rs) ==
  /\ resp' = [resp EXCEPT ![t] = rs]
  /\ pc' = [pc EXCEPT ![t] = "done"]

\* ------------------------------------------------ MT5Engine(): __new__

\* line 47: the first, unlocked check
New47(t) ==
  /\ pc[t] = "new47"
  /\ pc' = [pc EXCEPT ![t] = IF _instance = NoObject THEN "new48" ELSE "new52"]
  /\ UNCHANGED << env, mt5, session, _instance, _lock, objects, accounts,
                  trades, origin, req, self, loc, calls, resp, nreq >>

\* line 48: with cls._lock (blocks while another thread holds the lock)
New48(t) ==
  /\ pc[t] = "new48"
  /\ _lock = Unlocked
  /\ _lock' = t
  /\ pc' = [pc EXCEPT ![t] = "new49"]
  /\ UNCHANGED << env, mt5, session, _instance, objects, accounts, trades, origin,
                  req, self, loc, calls, resp, nreq >>

\* The second check left out.
NoSecondCheck(inst) == TRUE

\* line 49: the second check, under the lock
SecondCheck(inst) == inst = NoObject

\* super().__new__(cls): an object with no attribute set
NewObject ==
  [attrs |-> {}, _initialized |-> FALSE, login |-> <<>>, password |-> <<>>,
   server |-> <<>>]

\* lines 49-50: under the lock, allocate the object and publish it
New49(t) ==
  /\ pc[t] = "new49"
  /\ IF SecondCheck(_instance)
     THEN /\ objects' = Append(objects, NewObject)
          /\ _instance' = Len(objects) + 1
          /\ pc' = [pc EXCEPT ![t] = "new51"]
     ELSE /\ UNCHANGED << objects, _instance >>
          /\ pc' = [pc EXCEPT ![t] = "new52"]
  /\ UNCHANGED << env, mt5, session, _lock, accounts, trades, origin, req, self, loc,
                  calls, resp, nreq >>

\* line 51: cls._instance._initialized = False
New51(t) ==
  /\ pc[t] = "new51"
  /\ objects' = [objects EXCEPT ![_instance]._initialized = FALSE,
                                 ![_instance].attrs = @ \cup {"_initialized"}]
  /\ pc' = [pc EXCEPT ![t] = "new52"]
  /\ UNCHANGED << env, mt5, session, _instance, _lock, accounts, trades, origin, req,
                  self, loc, calls, resp, nreq >>

\* line 52: leave the with block if it was entered, return cls._instance
New52(t) ==
  /\ pc[t] = "new52"
  /\ _lock' = IF _lock = t THEN Unlocked ELSE _lock
  /\ self' = [self EXCEPT ![t] = _instance]
  /\ pc' = [pc EXCEPT ![t] = "init55"]
  /\ UNCHANGED << env, mt5, session, _instance, objects, accounts, trades, origin,
                  req, loc, calls, resp, nreq >>

\* ------------------------------------------------ MT5Engine(): __init__

\* lines 55-56: read self._initialized; the attribute may not exist yet
Init55(t) ==
  /\ pc[t] = "init55"
  /\ LET obj == objects[self[t]] IN
       IF "_initialized" \notin obj.attrs
       THEN /\ Finish(t, Raised(req[t], Exc("AttributeError", "_initialized",
                                            None, None)))
       ELSE /\ pc' = [pc EXCEPT ![t] = IF obj._initialized THEN "connect"
                                       ELSE "init57"]
            /\ UNCHANGED resp
  /\ UNCHANGED << env, mt5, session, _instance, _lock, objects, accounts,
                  trades, origin, req, self, loc, calls, nreq >>

\* line 61: a credential is missing or blank
MissingCredentials(login, password, server) ==
  login = <<>> \/ password = <<>> \/ server = <<>>

\* lines 57-65: read the credentials, check them, set the flag
Init57(t) ==
  /\ pc[t] = "init57"
  /\ LET login == Strip(env.MT5_LOGIN)
         password == Strip(env.MT5_PASSWORD)
         server == Strip(env.MT5_SERVER)
         missing == MissingCredentials(login, password, server)
     IN  /\ objects' = [objects EXCEPT ![self[t]] =
                          [attrs |-> @.attrs \cup {"login", "password",
                                                    "server"},
                           _initialized |-> IF missing THEN @._initialized
                                            ELSE TRUE,
                           login |-> login, password |-> password,
                           server |-> server]]
         /\ IF missing
            THEN Finish(t, Raised(req[t],
                           MT5EngineError("Missing MT5 credentials")))
            ELSE /\ pc' = [pc EXCEPT ![t] = "connect"]
                 /\ UNCHANGED resp
  /\ UNCHANGED << env, mt5, session, _instance, _lock, accounts, trades, origin, req,
                  self, loc, calls, nreq >>

\* ------------------------------------------------------------- the venue

\* The calls of the package work on an initialized connection only.
SessionUp == session = "up"

\* The connection after mt5.initialize returned: a failed call leaves the
\* connection as it was or leaves none.
InitializeResults(initialized) ==
  IF initialized THEN {"up"} ELSE {session, "failed"}

\* The comment the venue attaches to a return code.
VenueComment(retcode) ==
  IF retcode = TRADE_RETCODE_DONE THEN "Request executed"
  ELSE IF retcode = TRADE_RETCODE_REQUOTE THEN "Requote"
  ELSE "Only part of the request was completed"

\* An acknowledgement of order_send (an OrderSendResult).
Ack(rc, vol, o, d, pr) ==
  [retcode |-> rc, comment |-> VenueComment(rc), volume |-> vol, order |-> o,
   deal |-> d, price |-> pr]

\* What mt5.symbol_select may return: the venue may refuse a symbol it
\* lists, and refuses every other one.
SymbolSelectResults(symbol) ==
  IF SessionUp /\ symbol \in VenueSymbols THEN {TRUE, FALSE} ELSE {FALSE}

\* What mt5.symbol_info_tick may return.
TickResults == IF SessionUp THEN Ticks \cup {None} ELSE {None}

\* What mt5.order_send may return for a request: nothing, a fill (possibly
\* at a slipped price), a requote or a partial fill.
OrderSendResults(request) ==
  IF ~SessionUp THEN {None}
  ELSE {None}
       \cup { Ack(TRADE_RETCODE_DONE, request.volume, o, d,
                   request.price + sl) :
              o \in OrderIds, d \in DealIds, sl \in Slippage }
       \cup { Ack(TRADE_RETCODE_REQUOTE, 0, 0, 0, 0) }
       \cup { Ack(TRADE_RETCODE_DONE_PARTIAL, request.volume \div 2, o, d,
                   request.price) :
              o \in PartialOrderIds, d \in DealIds }

\* ---------------------------------------------------- MT5Engine.connect

\* lines 90 and 117: symbol.upper().strip()
NormalizeSymbol(symbol) == Strip(Upper(symbol))

\* line 118: order_type.lower().strip()
NormalizeSide(order_type) == Strip(Lower(order_type))

\* line 120
ValidSide(order_type) == order_type \in {BUY, SELL}

\* The position after the side check of send_market_order (lines 120-124).
AfterSideCheck(order_type) ==
  IF ValidSide(order_type) THEN "select" ELSE "shutdown"

\* lines 89-90 and 116-122: connect() (lines 69-79: mt5.initialize with the
\* stored credentials), then the normalisation of the arguments and, in
\* send_market_order, the check of the side
Connect(t) ==
  /\ pc[t] = "connect"
  /\ IF ~mt5
     THEN /\ Finish(t, Raised(req[t], MT5EngineError(
                    "MetaTrader5 package is not installed")))
          /\ UNCHANGED << session, calls, loc >>
     ELSE \E initialized \in BOOLEAN :
       /\ session' \in InitializeResults(initialized)
       /\ calls' = [calls EXCEPT ![t] =
            Append(@, Call("initialize", objects[self[t]].login, initialized))]
       /\ IF ~initialized
          THEN /\ Finish(t, Raised(req[t],
                         MT5EngineError("MT5 initialize() failed")))
               /\ UNCHANGED loc
          ELSE LET symbol == NormalizeSymbol(req[t].symbol) IN
            IF req[t].kind = "get_price"
            THEN /\ loc' = [loc EXCEPT ![t].symbol = symbol]
                 /\ pc' = [pc EXCEPT ![t] = "select"]
                 /\ UNCHANGED resp
            ELSE LET order_type == NormalizeSide(req[t].type) IN
                 /\ loc' = [loc EXCEPT
                      ![t].symbol = symbol,
                      ![t].order_type = order_type,
                      ![t].err = IF ValidSide(order_type) THEN None
                                 ELSE MT5EngineError(
                                        "order_type must be 'buy' or 'sell'")]
                 /\ pc' = [pc EXCEPT ![t] = AfterSideCheck(order_type)]
                 /\ UNCHANGED resp
  /\ UNCHANGED << env, mt5, _instance, _lock, objects, accounts, trades, origin, req,
                  self, nreq >>

\* ------------------------------- symbol select (lines 92-96 and 124-128)

\* The tick is fetched whatever symbol_select returned.
AfterSelectContinue(selected) == "tick"

\* The position after mt5.symbol_select returned.
AfterSelect(selected) == IF selected THEN "tick" ELSE "shutdown"

Select(t) ==
  /\ pc[t] = "select"
  /\ \E selected \in SymbolSelectResults(loc[t].symbol) :
       /\ calls' = [calls EXCEPT ![t] =
            Append(@, Call("symbol_select", loc[t].symbol, selected))]
       /\ loc' = [loc EXCEPT ![t].err =
            IF selected THEN None
            ELSE MT5EngineError("Failed to select symbol")]
       /\ pc' = [pc EXCEPT ![t] = AfterSelect(selected)]
  /\ UNCHANGED << env, mt5, session, _instance, _lock, objects, accounts,
                  trades, origin, req, self, resp, nreq >>

\* ---------------------------------- tick fetch (lines 98-104 and 130-150)

\* line 136
OrderType(order_type) ==
  IF order_type = BUY THEN ORDER_TYPE_BUY ELSE ORDER_TYPE_SELL

\* The legs of the tick taken the wrong way round.
OrderPriceSwapped(order_type, tick) ==
  IF order_type = BUY THEN tick.bid ELSE tick.ask

\* line 137
OrderPrice(order_type, tick) ==
  IF order_type = BUY THEN tick.ask ELSE tick.bid

\* line 153 of main.py, and the default of line 113
Comment(r) ==
  IF r.kind = "open_trade"
  THEN [user |-> r.user, account |-> r.account_id]
  ELSE "perfect-traders bridge"

\* lines 139-150
Request(r, symbol, order_type, tick) ==
  [symbol |-> symbol, comment |-> Comment(r), volume |-> r.volume,
   type |-> OrderType(order_type), price |-> OrderPrice(order_type, tick),
   action |-> "TRADE_ACTION_DEAL", deviation |-> 20, magic |-> 202601,
   type_time |-> "ORDER_TIME_GTC", type_filling |-> "ORDER_FILLING_IOC"]

\* A value kept from an earlier call is returned instead of the fetched tick.
TickPriceCached(symbol, tick) ==
  [bid |-> 11000, ask |-> 11002, time |-> 1, symbol |-> symbol]

\* line 104
TickPrice(symbol, tick) ==
  [bid |-> tick.bid, ask |-> tick.ask, time |-> tick.time, symbol |-> symbol]

\* The position after mt5.symbol_info_tick returned.
AfterTick(r, tick) ==
  IF tick = None THEN "shutdown"
  ELSE IF r.kind = "get_price" THEN "shutdown" ELSE "order_send"

Tick(t) ==
  /\ pc[t] = "tick"
  /\ \E tick \in TickResults :
       /\ calls' = [calls EXCEPT ![t] =
            Append(@, Call("symbol_info_tick", loc[t].symbol, tick))]
       /\ loc' = [loc EXCEPT
            ![t].tick = tick,
            ![t].err = IF tick = None
                       THEN MT5EngineError("Failed to fetch tick") ELSE None,
            ![t].result = IF tick # None /\ req[t].kind = "get_price"
                          THEN TickPrice(loc[t].symbol, tick) ELSE None,
            ![t].request = IF tick # None /\ req[t].kind # "get_price"
                           THEN Request(req[t], loc[t].symbol,
                                        loc[t].order_type, tick)
                           ELSE None]
       /\ pc' = [pc EXCEPT ![t] = AfterTick(req[t], tick)]
  /\ UNCHANGED << env, mt5, session, _instance, _lock, objects, accounts,
                  trades, origin, req, self, resp, nreq >>

\* ------------------------------------------ order_send (lines 152-174)

\* The return code of the acknowledgement is not inspected.
OrderErrorIgnoringRetcode(result) ==
  IF result = None THEN MT5EngineError("order_send() returned None")
  ELSE None

\* lines 153-164: the exception for an acknowledgement, None for a done one
OrderError(result) ==
  IF result = None THEN MT5EngineError("order_send() returned None")
  ELSE IF result.retcode # TRADE_RETCODE_DONE
       THEN Exc("MT5EngineError", "Order rejected", result.retcode,
                result.comment)
       ELSE None

\* The order id and the deal id of the acknowledgement taken for each other.
ExecutionResultIdsSwapped(result, symbol, order_type) ==
  [symbol |-> symbol, retcode |-> result.retcode, volume |-> result.volume,
   type |-> order_type, deal |-> result.order, price |-> result.price,
   ticket |-> result.deal]

\* lines 166-174
ExecutionResult(result, symbol, order_type) ==
  [symbol |-> symbol, retcode |-> result.retcode, volume |-> result.volume,
   type |-> order_type, deal |-> result.deal, price |-> result.price,
   ticket |-> result.order]

\* A null acknowledgement is answered by sending the order again.
AfterOrderSendRetry(err) ==
  IF err # None /\ err.msg = "order_send() returned None"
  THEN "order_send" ELSE "shutdown"

\* The position after mt5.order_send returned and its result was checked.
AfterOrderSend(err) == "shutdown"

OrderSend(t) ==
  /\ pc[t] = "order_send"
  /\ \E result \in OrderSendResults(loc[t].request) :
       LET err == OrderError(result) IN
       /\ calls' = [calls EXCEPT ![t] =
            Append(@, Call("order_send", loc[t].request, result))]
       /\ loc' = [loc EXCEPT
            ![t].err = err,
            ![t].result = IF err = None
                          THEN ExecutionResult(result, loc[t].symbol,
                                               loc[t].order_type)
                          ELSE None]
       /\ pc' = [pc EXCEPT ![t] = AfterOrderSend(err)]
  /\ UNCHANGED << env, mt5, session, _instance, _lock, objects, accounts,
                  trades, origin, req, self, resp, nreq >>

\* ----------------------------------------------------- MT5Engine.shutdown

\* lines 81-85: the session after shutdown()
AfterShutdown == IF ~mt5 THEN session ELSE "shutdown"

\* line 135 of main.py
PriceBody(tick) ==
  [bid |-> tick.bid, ask |-> tick.ask, time |-> tick.time,
   symbol |-> tick.symbol]

\* shutdown() and what follows it: the raise of the pending exception
\* (lines 95-96, 101-102, 121-122, 127-128, 133-134, 155-156, 160-164) or
\* the return (lines 105-106, 175-177) to the caller, which ends the locals
\* of the operation; open_trade keeps the returned mt5_result
Shutdown(t) ==
  /\ pc[t] = "shutdown"
  /\ session' = AfterShutdown
  /\ calls' = [calls EXCEPT ![t] = Append(@, Call("shutdown", None, None))]
  /\ loc' = [loc EXCEPT ![t] =
       IF loc[t].err = None /\ req[t].kind = "open_trade"
       THEN [NoLocals EXCEPT !.result = loc[t].result] ELSE NoLocals]
  /\ IF loc[t].err # None
     THEN Finish(t, Raised(req[t], loc[t].err))
     ELSE IF req[t].kind = "get_price"
     THEN Finish(t, Response(200, None, PriceBody(loc[t].result)))
     ELSE IF req[t].kind = "send_market_order"
     THEN Finish(t, Response(0, None, loc[t].result))
     ELSE /\ pc' = [pc EXCEPT ![t] = "commit"]
          /\ UNCHANGED resp
  /\ UNCHANGED << env, mt5, _instance, _lock, objects, accounts, trades,
                  origin, req, self, nreq >>

\* ------------------------------------------------- open_trade (main.py)

\* The owner of the account is not compared with the user.
FindAccountOfAnyUser(account_id, user_id) ==
  IF account_id \in DOMAIN accounts THEN accounts[account_id] ELSE None

\* line 144: the account of that id owned by that user, or None
FindAccount(account_id, user_id) ==
  IF account_id \in DOMAIN accounts /\ accounts[account_id].user_id = user_id
  THEN accounts[account_id] ELSE None

\* lines 144-146
Account(t) ==
  /\ pc[t] = "account"
  /\ IF FindAccount(req[t].account_id, req[t].user) = None
     THEN Finish(t, Raised(req[t], Exc("HTTPException", "Account not found",
                                       404, None)))
     ELSE /\ pc' = [pc EXCEPT ![t] = "new47"]
          /\ UNCHANGED resp
  /\ UNCHANGED << env, mt5, session, _instance, _lock, objects, accounts,
                  trades, origin, req, self, loc, calls, nreq >>

\* line 160
TicketId(mt5_result) == IntToStr(mt5_result.ticket)

\* lines 158-166; the id is the next value of the primary key
NewTrade(r, mt5_result) ==
  [symbol |-> Upper(r.symbol), status |-> "open", id |-> Len(trades) + 1,
   volume |-> r.volume, type |-> r.type, account_id |-> r.account_id,
   ticket_id |-> TicketId(mt5_result), open_price |-> mt5_result.price]

\* The column without its unique constraint.
NoUniqueTicket(trade) == TRUE

\* database.py line 51: unique=True on trades.ticket_id
UniqueTicket(trade) == \A i \in DOMAIN trades : trades[i].ticket_id # trade.ticket_id

\* lines 171-179
TradeBody(trade) ==
  [symbol |-> trade.symbol, status |-> trade.status, volume |-> trade.volume,
   type |-> trade.type, ticket_id |-> trade.ticket_id,
   open_price |-> trade.open_price, trade_id |-> trade.id]

\* The acknowledgements of the order_send calls of a log.
Acks(log) ==
  LET sends == SelectSeq(log, LAMBDA c : c.op = "order_send")
  IN  [i \in DOMAIN sends |-> sends[i].res]

\* lines 158-179: db.add, db.commit; the commit fails when the store is
\* unavailable or the ticket is already in the table, and its exception is
\* not caught
Commit(t) ==
  /\ pc[t] = "commit"
  /\ loc' = [loc EXCEPT ![t] = NoLocals]
  /\ LET trade == NewTrade(req[t], loc[t].result) IN
     \E available \in BOOLEAN :
       IF ~available
       THEN /\ Finish(t, Raised(req[t], Exc("OperationalError", "commit",
                                            None, None)))
            /\ UNCHANGED << trades, origin >>
       ELSE IF ~UniqueTicket(trade)
       THEN /\ Finish(t, Raised(req[t], Exc("IntegrityError", "commit",
                                            None, None)))
            /\ UNCHANGED << trades, origin >>
       ELSE /\ trades' = Append(trades, trade)
            /\ origin' = Append(origin, Acks(calls[t]))
            /\ Finish(t, Response(201, None, TradeBody(trade)))
  /\ UNCHANGED << env, mt5, session, _instance, _lock, objects, accounts,
                  req, self, calls, nreq >>

\* --------------------------------------------- adjust_balance (main.py)

\* line 27: os.getenv("ADMIN_SECRET", ""), read when the module is loaded
ADMIN_SECRET == env.ADMIN_SECRET

\* line 188: not ADMIN_SECRET
SecretConfigured == ADMIN_SECRET # ""

\* Any header passes.
AnySecret(x_admin_secret) == TRUE

\* line 191
SecretMatches(x_admin_secret) == x_admin_secret = ADMIN_SECRET

\* line 194: the account of that id, or None
GetAccount(account_id) ==
  IF account_id \in DOMAIN accounts THEN accounts[account_id] ELSE None

\* lines 188-196: the checks of the secret and the query of the account
Adjust(t) ==
  /\ pc[t] = "adjust"
  /\ IF ~SecretConfigured
     THEN Finish(t, Raised(req[t], Exc("HTTPException",
                    "ADMIN_SECRET is not configured", 500, None)))
     ELSE IF ~SecretMatches(req[t].x_admin_secret)
     THEN Finish(t, Raised(req[t], Exc("HTTPException",
                    "Invalid admin secret", 403, None)))
     ELSE IF GetAccount(req[t].account_id) = None
     THEN Finish(t, Raised(req[t], Exc("HTTPException", "Account not found",
                                       404, None)))
     ELSE /\ pc' = [pc EXCEPT ![t] = "adjust_commit"]
          /\ UNCHANGED resp
  /\ UNCHANGED << env, mt5, session, _instance, _lock, objects,
                  accounts, trades, origin, req, self, loc, calls, nreq >>

\* The balance is written to every account.
SetEveryBalance(account_id, balance) ==
  [a \in DOMAIN accounts |-> [accounts[a] EXCEPT !.balance = balance]]

\* line 198 and the UPDATE of line 199: the accounts table after the write
SetBalance(account_id, balance) ==
  [accounts EXCEPT ![account_id].balance = balance]

\* line 202
BalanceBody(account) ==
  [balance |-> IntToStr(account.balance), account_id |-> account.id,
   message |-> "Balance updated"]

\* lines 198-202: account.balance = payload.balance, db.commit; the commit
\* fails when the store is unavailable, and its exception is not caught
AdjustCommit(t) ==
  /\ pc[t] = "adjust_commit"
  /\ \E available \in BOOLEAN :
       IF ~available
       THEN /\ Finish(t, Raised(req[t], Exc("OperationalError", "commit",
                                            None, None)))
            /\ UNCHANGED accounts
       ELSE /\ accounts' = SetBalance(req[t].account_id, req[t].balance)
            /\ Finish(t, Response(200, None,
                          BalanceBody(accounts'[req[t].account_id])))
  /\ UNCHANGED << env, mt5, session, _instance, _lock, objects,
                  trades, origin, req, self, loc, calls, nreq >>

\* ------------------------------------------------------- the specification

Next ==
  \E t \in Threads :
    \/ BeginGetPrice(t)
    \/ BeginOpenTrade(t)
    \/ BeginSendMarketOrder(t)
    \/ BeginAdjustBalance(t)
    \/ Account(t)
    \/ New47(t)
    \/ New48(t)
    \/ New49(t)
    \/ New51(t)
    \/ New52(t)
    \/ Init55(t)
    \/ Init57(t)
    \/ Connect(t)
    \/ Select(t)
    \/ Tick(t)
    \/ OrderSend(t)
    \/ Shutdown(t)
    \/ Commit(t)
    \/ Adjust(t)
    \/ AdjustCommit(t)

Spec == Init /\ [][Next]_vars

\* ================================================================= claims

\* The operations of a log, in order.
Ops(log) == [i \in DOMAIN log |-> log[i].op]

\* The number of calls of operation op in a log.
Count(log, op) == Cardinality({i \in DOMAIN log : log[i].op = op})

\* An acknowledgement that is non-null and carries the done return code.
IsDone(ack) == ack # None /\ ack.retcode = TRADE_RETCODE_DONE

\* A log holds an order_send with such an acknowledgement.
HasDoneAck(log) == \E i \in DOMAIN Acks(log) : IsDone(Acks(log)[i])

Finished(t) == pc[t] = "done"

Failed(t) == Finished(t) /\ resp[t].error # None

FailedWith(t, msg) == Failed(t) /\ resp[t].error.msg = msg

\* C1: every persisted Trade was created by an open_trade call whose
\* order_send returned a non-null acknowledgement with the done return code;
\* a finished open_trade call without such an acknowledgement (connect,
\* symbol select, tick fetch or order_send failed, or the return code was
\* another one) did not answer with a created Trade.
C1_TradeOnlyAfterDoneAck ==
  /\ Len(origin) = Len(trades)
  /\ \A i \in DOMAIN trades : \E j \in DOMAIN origin[i] : IsDone(origin[i][j])
  /\ \A t \in Threads :
       (Finished(t) /\ req[t].kind = "open_trade" /\ ~HasDoneAck(calls[t]))
       => (resp[t].status # 201 /\ resp[t].body = None)

\* A Trade is persisted and another open_trade call was rejected by the venue.
C1_Witness ==
  /\ Len(trades) = 1
  /\ \E t \in Threads :
       /\ FailedWith(t, "Order rejected")
       /\ req[t].kind = "open_trade"
       /\ Count(calls[t], "order_send") = 1

\* C2: an open_trade call that got a done acknowledgement and persisted no
\* Trade answers with a ReconciliationError that records the remote order id.
C2_ReconciliationError ==
  \A t \in Threads :
    (Finished(t) /\ req[t].kind = "open_trade" /\ HasDoneAck(calls[t])
       /\ resp[t].status # 201)
    => /\ resp[t].error # None
       /\ resp[t].error.cls = "ReconciliationError"
       /\ \E i \in DOMAIN calls[t] :
            /\ calls[t][i].op = "order_send"
            /\ resp[t].error.retcode = calls[t][i].res.order

\* C3: a finished get_price or send_market_order that called
\* mt5.initialize made shutdown its last remote call.
C3_ShutdownOnEveryExit ==
  \A t \in Threads :
    (Finished(t) /\ Count(calls[t], "initialize") > 0)
    => calls[t][Len(calls[t])].op = "shutdown"

\* C4: when send_market_order fails on the side, no remote call was made.
C4_InvalidSideBeforeRemoteCall ==
  \A t \in Threads :
    FailedWith(t, "order_type must be 'buy' or 'sell'") => calls[t] = <<>>

\* C5: every submitted order carries the ask (buy) or the bid (sell) of the
\* tick fetched by the same call immediately before, and the matching type.
C5_PriceFromFetchedTick ==
  \A t \in Threads : \A i \in DOMAIN calls[t] :
    calls[t][i].op = "order_send" =>
      /\ i > 1
      /\ calls[t][i - 1].op = "symbol_info_tick"
      /\ calls[t][i - 1].res # None
      /\ Count(calls[t], "symbol_info_tick") = 1
      /\ LET tick == calls[t][i - 1].res
             request == calls[t][i].arg
         IN  /\ NormalizeSide(req[t].type) \in {BUY, SELL}
             /\ NormalizeSide(req[t].type) = BUY =>
                  (request.price = tick.ask /\ request.type = ORDER_TYPE_BUY)
             /\ NormalizeSide(req[t].type) = SELL =>
                  (request.price = tick.bid /\ request.type = ORDER_TYPE_SELL)

\* A sell order and a buy order were submitted, on different ticks.
C5_Witness ==
  \E t, u \in Threads : \E i \in DOMAIN calls[t], j \in DOMAIN calls[u] :
    /\ calls[t][i].op = "order_send"
    /\ calls[u][j].op = "order_send"
    /\ calls[t][i].arg.type = ORDER_TYPE_SELL
    /\ calls[u][j].arg.type = ORDER_TYPE_BUY
    /\ calls[t][i - 1].res # calls[u][j - 1].res

\* C6: every persisted Trade's ticket_id is the string form of the order id
\* of the acknowledgement of the call that created it, and no two persisted
\* Trades share a ticket_id.
C6_TicketIsOrderIdAndUnique ==
  /\ \A i \in DOMAIN trades :
       /\ Len(origin[i]) = 1
       /\ trades[i].ticket_id = IntToStr(origin[i][1].order)
  /\ \A i, j \in DOMAIN trades :
       trades[i].ticket_id = trades[j].ticket_id => i = j

\* The venue gave two open_trade calls the same order id: the first is
\* persisted and the commit of the second was refused.
C6_Witness ==
  /\ Len(trades) = 1
  /\ \E t \in Threads :
       /\ Failed(t)
       /\ resp[t].error.cls = "IntegrityError"
       /\ HasDoneAck(calls[t])
       /\ IntToStr(calls[t][4].res.order) = trades[1].ticket_id

\* C7: at most one MT5Engine object is ever created, and every thread whose
\* construction got an instance got that same object.
C7_OneInstance ==
  /\ Len(objects) <= 1
  /\ \A t \in Threads : self[t] # NoObject => self[t] = _instance
  /\ \A t, u \in Threads :
       (self[t] # NoObject /\ self[u] # NoObject) => self[t] = self[u]

\* Two threads passed the unlocked check before the object existed: one has
\* created it, the other holds the lock and is at the second check.
C7_Witness ==
  /\ Len(objects) = 1
  /\ \E t, u \in Threads :
       /\ t # u
       /\ pc[t] = "new49"
       /\ self[u] = 1

\* C8: no operation is at a symbol select, a tick fetch or an order_send
\* while the session has been torn down by a shutdown() or has not yet
\* been initialized.
C8_NoHalfInitializedSession ==
  \A t \in Threads :
    pc[t] \in {"select", "tick", "order_send"}
    => session \notin {"shutdown", "none"}

\* A remote call of the log that failed.
CallFailed(c) ==
  CASE c.op = "initialize" -> ~c.res
    [] c.op = "symbol_select" -> ~c.res
    [] c.op = "symbol_info_tick" -> c.res = None
    [] c.op = "order_send" ->
         IF c.res = None THEN TRUE ELSE c.res.retcode # TRADE_RETCODE_DONE
    [] OTHER -> FALSE

\* C9: one request makes at most one initialize, one symbol select, one
\* tick fetch and one order_send, and a request with a failed call ends
\* with the error.
C9_NoRetry ==
  \A t \in Threads :
    /\ \A op \in {"initialize", "symbol_select", "symbol_info_tick",
                  "order_send"} : Count(calls[t], op) <= 1
    /\ (Finished(t) /\ \E i \in DOMAIN calls[t] : CallFailed(calls[t][i]))
       => resp[t].error # None

\* A request ended on a null acknowledgement after a single order_send.
C9_Witness ==
  \E t \in Threads :
    /\ FailedWith(t, "order_send() returned None")
    /\ Count(calls[t], "order_send") = 1
    /\ calls[t][4].res = None

\* C10: in send_market_order, the first failed call is followed by nothing
\* but the shutdown, and the error is the one of that call: the symbol
\* error after a rejected select, the quote error after a missing tick, the
\* transport error after a null acknowledgement, the rejection with the
\* return code and the comment of the acknowledgement after another code.
C10_StopAtFirstFailure ==
  \A t \in Threads :
    (req[t] # None /\ req[t].kind # "get_price") =>
      \A i \in DOMAIN calls[t] :
        LET c == calls[t][i] IN
        (c.op # "initialize" /\ CallFailed(c)) =>
          /\ Len(calls[t]) <= i + 1
          /\ Len(calls[t]) = i + 1 => calls[t][i + 1].op = "shutdown"
          /\ Finished(t) =>
               /\ Ops(calls[t]) =
                    SubSeq(<<"initialize", "symbol_select",
                             "symbol_info_tick", "order_send">>, 1, i)
                    \o <<"shutdown">>
               /\ resp[t].error # None
               /\ resp[t].error.cls = "MT5EngineError"
               /\ resp[t].error.msg =
                    CASE c.op = "symbol_select" -> "Failed to select symbol"
                      [] c.op = "symbol_info_tick" -> "Failed to fetch tick"
                      [] c.op = "order_send" ->
                           IF c.res = None THEN "order_send() returned None"
                           ELSE "Order rejected"
               /\ (c.op = "order_send" /\ c.res # None) =>
                    /\ resp[t].error.retcode = c.res.retcode
                    /\ resp[t].error.comment = c.res.comment

\* A send_market_order ended on a requote.
C10_Witness ==
  \E t \in Threads :
    /\ FailedWith(t, "Order rejected")
    /\ resp[t].error.retcode = TRADE_RETCODE_REQUOTE
    /\ resp[t].error.comment = "Requote"

\* The credentials of the environment, as __init__ reads them (lines 57-59).
CredentialsMissing ==
  MissingCredentials(Strip(env.MT5_LOGIN), Strip(env.MT5_PASSWORD),
                     Strip(env.MT5_SERVER))

\* The request of t has called MT5Engine() and the call has returned or raised.
ConstructionEnded(t) ==
  \/ pc[t] \in {"connect", "select", "tick", "order_send", "shutdown", "commit"}
  \/ /\ Finished(t)
     /\ req[t].kind # "adjust_balance"
     /\ ~FailedWith(t, "Account not found")

\* C11: while a credential is missing or blank, every construction of the
\* engine ends with the configuration error, at every attempt, and its
\* caller makes no remote call: no request gets past the construction.
C11_MissingCredentialsFailConstruction ==
  CredentialsMissing =>
    \A t \in Threads :
      /\ calls[t] = <<>>
      /\ ConstructionEnded(t) => FailedWith(t, "Missing MT5 credentials")

\* The acknowledgement of the order_send of a log (the log holds one).
AckOf(log) == Acks(log)[1]

\* The request of the order_send of a log.
SentOf(log) ==
  SelectSeq(log, LAMBDA c : c.op = "order_send")[1].arg

\* C12: the result of a successful send_market_order carries the order id,
\* the deal id, the return code, the price and the volume of the
\* acknowledgement, and the Trade that open_trade persists and returns has
\* the price of the acknowledgement as its open_price.
C12_ResultFromAcknowledgement ==
  /\ \A t \in Threads :
       /\ (Finished(t) /\ ~Failed(t) /\ req[t].kind = "send_market_order") =>
            /\ resp[t].body.ticket = AckOf(calls[t]).order
            /\ resp[t].body.deal = AckOf(calls[t]).deal
            /\ resp[t].body.retcode = AckOf(calls[t]).retcode
            /\ resp[t].body.price = AckOf(calls[t]).price
            /\ resp[t].body.volume = AckOf(calls[t]).volume
       /\ pc[t] = "commit" =>
            /\ loc[t].result.ticket = AckOf(calls[t]).order
            /\ loc[t].result.deal = AckOf(calls[t]).deal
            /\ loc[t].result.retcode = AckOf(calls[t]).retcode
            /\ loc[t].result.price = AckOf(calls[t]).price
            /\ loc[t].result.volume = AckOf(calls[t]).volume
       /\ (Finished(t) /\ ~Failed(t) /\ req[t].kind = "open_trade") =>
            resp[t].body.open_price = AckOf(calls[t]).price
  /\ \A i \in DOMAIN trades : trades[i].open_price = origin[i][1].price

\* A Trade was persisted at a price that is not the price of the request.
C12_Witness ==
  \E t \in Threads :
    /\ Finished(t)
    /\ resp[t].status = 201
    /\ AckOf(calls[t]).price # SentOf(calls[t]).price
    /\ trades[resp[t].body.trade_id].open_price = AckOf(calls[t]).price

\* Thread t takes a step.
Steps(t) == pc'[t] # pc[t]

\* Thread t takes the step that commits an adjustment of account a.
Adjusts(t, a) ==
  /\ Steps(t)
  /\ pc[t] = "adjust_commit"
  /\ req[t].account_id = a
  /\ resp'[t].status = 200

\* C13: no step of an open_trade request changes the balance of an account;
\* a balance changes only in the step that commits a successful
\* adjust_balance for that account, and that step leaves it at the value of
\* the request, so that a balance is always the one the most recent
\* successful adjustment set, or the initial one.
C13_BalanceOnlyByAdjustment ==
  [][ \A a \in DOMAIN accounts :
        /\ \A t \in Threads :
             (Steps(t) /\ req'[t].kind \in {"open_trade", "get_price"})
             => accounts'[a].balance = accounts[a].balance
        /\ accounts'[a].balance # accounts[a].balance
           => \E t \in Threads : Adjusts(t, a)
        /\ \A t \in Threads :
             Adjusts(t, a) => accounts'[a].balance = req[t].balance ]_vars

\* A Trade was persisted for account 1 and the balance of account 1 was
\* adjusted.
C13_Witness ==
  /\ Len(trades) = 1
  /\ trades[1].account_id = 1
  /\ accounts[1].balance = 7

\* The credentials an engine object stores.
StoredCredentials(obj) == << obj.login, obj.password, obj.server >>

\* C14: a get_price that returned made one tick fetch of its own and
\* returned the bid, ask and time of that tick with the normalized symbol;
\* no step of a get_price request changes the accounts, the trades or the
\* credentials an engine object already stores.
C14_GetPriceFreshAndReadOnly ==
  /\ [](\A t \in Threads :
          (Finished(t) /\ req[t].kind = "get_price" /\ ~Failed(t)) =>
            /\ Count(calls[t], "symbol_info_tick") = 1
            /\ calls[t][3].op = "symbol_info_tick"
            /\ resp[t].body =
                 [bid |-> calls[t][3].res.bid, ask |-> calls[t][3].res.ask,
                  time |-> calls[t][3].res.time,
                  symbol |-> Strip(Upper(req[t].symbol))])
  /\ [][ \A t \in Threads :
           (Steps(t) /\ req'[t].kind = "get_price") =>
             /\ accounts' = accounts
             /\ trades' = trades
             /\ \A i \in DOMAIN objects :
                  "login" \in objects[i].attrs =>
                    StoredCredentials(objects'[i])
                      = StoredCredentials(objects[i]) ]_vars

\* Two get_price calls returned, each with the tick of its own fetch, and
\* the two ticks differ.
C14_Witness ==
  \E t, u \in Threads :
    /\ Finished(t) /\ Finished(u)
    /\ req[t].kind = "get_price" /\ req[u].kind = "get_price"
    /\ resp[t].status = 200 /\ resp[u].status = 200
    /\ resp[t].body.time = 1 /\ resp[u].body.time = 2
    /\ resp[t].body.symbol = EURUSD

\* The request of t ended with a failure of the bridge: an error of the
\* engine, or a commit that failed after the order was executed.
BridgeFailure(t) ==
  /\ Failed(t)
  /\ req[t].kind \in {"get_price", "open_trade"}
  /\ resp[t].error.cls \in {"MT5EngineError", "OperationalError",
                            "IntegrityError"}

\* C15: every failure of the bridge during a /price or a /trade/open
\* request is answered with 502.
C15_BridgeFailuresAre502 ==
  \A t \in Threads : BridgeFailure(t) => resp[t].status = 502

\* C16: an open_trade for an account that does not exist or belongs to
\* another user ends with 'Account not found' (404) at its first step,
\* without a construction of the engine, a remote call or a Trade; every
\* persisted Trade references an account of the requesting user.
C16_AccountCheckedBeforeBridge ==
  /\ \A t \in Threads :
       (req[t] # None /\ req[t].kind = "open_trade") =>
         LET owned ==
               /\ req[t].account_id \in DOMAIN accounts
               /\ accounts[req[t].account_id].user_id = req[t].user
         IN  /\ ~owned =>
                  /\ pc[t] \in {"account", "done"}
                  /\ self[t] = NoObject
                  /\ calls[t] = <<>>
                  /\ Finished(t) =>
                       /\ resp[t].status = 404
                       /\ resp[t].error.msg = "Account not found"
             /\ (Finished(t) /\ resp[t].status = 201) =>
                  /\ owned
                  /\ trades[resp[t].body.trade_id].account_id
                       = req[t].account_id
  /\ \A i \in DOMAIN trades :
       /\ trades[i].account_id \in DOMAIN accounts
       /\ accounts[trades[i].account_id].user_id \in Principals

\* A Trade was persisted for the user's account, and an open_trade of the
\* same user for the account of another user was rejected.
C16_Witness ==
  /\ Len(trades) = 1
  /\ \E t \in Threads :
       /\ FailedWith(t, "Account not found")
       /\ req[t].kind = "open_trade"
       /\ req[t].account_id = 2

\* The request of t is an adjust_balance that passes the checks of the
\* secret, the header and the account.
AdjustAllowed(t) ==
  /\ env.ADMIN_SECRET # ""
  /\ req[t].x_admin_secret = env.ADMIN_SECRET
  /\ req[t].account_id \in DOMAIN accounts

\* The request of t is an adjust_balance that has ended with its write.
Adjusted(t) ==
  /\ Finished(t)
  /\ req[t].kind = "adjust_balance"
  /\ resp[t].status = 200

\* C17: adjust_balance makes no remote call and constructs no engine; it
\* writes only when the secret is configured, the header matches and the
\* account exists, and its write sets the balance of that account to the
\* value of the request and changes no other account and no trade; a step
\* of a request that ends otherwise changes nothing; when two adjustments
\* of one account have both ended with their write, the balance is one of
\* the two values.
C17_AdjustBalanceFrame ==
  /\ [](\A t \in Threads :
          (req[t] # None /\ req[t].kind = "adjust_balance") =>
            /\ calls[t] = <<>>
            /\ self[t] = NoObject
            /\ pc[t] = "adjust_commit" => AdjustAllowed(t)
            /\ Adjusted(t) => AdjustAllowed(t)
            /\ \A u \in Threads :
                 (u # t /\ Adjusted(t) /\ Adjusted(u)
                    /\ req[t].account_id = req[u].account_id)
                 => accounts[req[t].account_id].balance
                      \in {req[t].balance, req[u].balance})
  /\ [][ \A t \in Threads :
           (Steps(t) /\ req'[t].kind = "adjust_balance") =>
             /\ trades' = trades
             /\ session' = session
             /\ objects' = objects
             /\ IF pc[t] = "adjust_commit" /\ resp'[t].status = 200
                THEN accounts' = [accounts EXCEPT
                                    ![req[t].account_id].balance =
                                       req[t].balance]
                ELSE accounts' = accounts ]_vars

\* Two concurrent adjustments of account 1 to different values have both
\* ended with their write, and the second write stands.
C17_Witness ==
  \E t, u \in Threads :
    /\ Adjusted(t) /\ Adjusted(u)
    /\ req[t].account_id = 1 /\ req[u].account_id = 1
    /\ req[t].balance = 5 /\ req[u].balance = 7
    /\ accounts[1].balance = 5

\* C18: no thread enters __init__ with an instance whose _initialized
\* attribute has not been set, so the read of line 55 never fails.
C18_FlagSetBeforeInit ==
  \A t \in Threads :
    /\ pc[t] = "init55" => "_initialized" \in objects[self[t]].attrs
    /\ ~FailedWith(t, "_initialized")

\* C19: the symbol and the side of every Trade that open_trade persisted
\* and returned are the normalized symbol and side under which the order
\* was executed.
C19_TradeSymbolIsExecutedSymbol ==
  \A t \in Threads :
    (Finished(t) /\ resp[t].status = 201) =>
      /\ trades[resp[t].body.trade_id].symbol = SentOf(calls[t]).symbol
      /\ trades[resp[t].body.trade_id].symbol = Strip(Upper(req[t].symbol))
      /\ trades[resp[t].body.trade_id].type = Strip(Lower(req[t].type))

====
